---- MODULE Spec2Model ----
(***************************************************************************)
(* Model of backend/main.py: the POST /subscribe handler and its helpers.  *)
(*                                                                         *)
(* The spreadsheet is the only state shared between requests.  FastAPI     *)
(* runs a plain `def` handler in a thread pool, so several requests run    *)
(* the handler at once; every call to the Sheets, LLM or mail API is one   *)
(* atomic step and the steps of different requests interleave freely.      *)
(* Every external call may raise.                                          *)
(*                                                                         *)
(* A second specification, SpecFence, applies the reply-parsing code of    *)
(* generate_email_content (a pure function of the reply text) to every     *)
(* text of bounded length.                                                 *)
(***************************************************************************)
EXTENDS Naturals, Sequences, FiniteSets

\* ---------------------------------------------------------------- bounds
\* Number of subscribe requests served (they may all be in flight at once).
NumReqs == 2
\* Longest payload text drawn in SpecFence.
MaxLen == 5

Reqs == 1..NumReqs

VARIABLES
    sheet,      \* the worksheet: a sequence of rows, row 1 first
    pc,         \* per request: the call it is about to make
    email,      \* per request: req.email
    row_index,  \* per request: local row_index of subscribe (0: not yet bound)
    content,    \* per request: local content of subscribe
    response,   \* per request: the HTTP response sent ([code |-> 0]: none yet)
    calls,      \* history: the pipeline steps the request has attempted, in order
    succeeded,  \* history: the pipeline steps that returned normally
    submitted,  \* history: messages the request handed to the mail API
    lacked,     \* history: the parsed LLM reply was not an object with all four keys
    payload,    \* SpecFence: the payload text P
    form,       \* SpecFence: how P was wrapped in the reply
    out         \* SpecFence: what json.loads returned for that reply

vars == <<sheet, pc, email, row_index, content, response, calls, succeeded,
          submitted, lacked, payload, form, out>>
reqVars == <<sheet, pc, email, row_index, content, response, calls, succeeded,
             submitted, lacked>>
fenceVars == <<payload, form, out>>

\* ------------------------------------------------------------ text helpers
\* Texts are sequences of characters, each a one-character string; the backtick
\* is written "BT" (a TLA+ string cannot hold one).
BackTick == "BT"
Alphabet == {BackTick, "j", "s", "o", "n", "\"", "1", " "}
Fence == <<BackTick, BackTick, BackTick>>
JsonTag == <<"j", "s", "o", "n">>

Texts == UNION {[1..n -> Alphabet] : n \in 0..MaxLen}

\* str.startswith
StartsWith(s, p) == Len(s) >= Len(p) /\ SubSeq(s, 1, Len(p)) = p

\* str.find, 1-based; 0 when sep does not occur in s
Find(s, sep) ==
    LET hits == {i \in 1..Len(s) : i + Len(sep) - 1 <= Len(s)
                                   /\ SubSeq(s, i, i + Len(sep) - 1) = sep}
    IN  IF hits = {} THEN 0 ELSE CHOOSE i \in hits : \A j \in hits : i <= j

\* str.split(sep): the pieces between the leftmost non-overlapping occurrences
RECURSIVE Split(_, _)
Split(s, sep) ==
    LET i == Find(s, sep)
    IN  IF i = 0 THEN <<s>>
        ELSE <<SubSeq(s, 1, i - 1)>> \o Split(SubSeq(s, i + Len(sep), Len(s)), sep)

RECURSIVE LStrip(_)
LStrip(s) == IF s # <<>> /\ Head(s) = " " THEN LStrip(Tail(s)) ELSE s

RECURSIVE RStrip(_)
RStrip(s) ==
    IF s # <<>> /\ s[Len(s)] = " " THEN RStrip(SubSeq(s, 1, Len(s) - 1)) ELSE s

\* str.strip
Strip(s) == RStrip(LStrip(s))

\* json.loads on the fragment of JSON the alphabet can spell: a number written
\* with the digit 1, or a string (no escapes); whitespace around it is skipped.
JsonLoads(t) ==
    LET s == Strip(t)
    IN  IF s # <<>> /\ \A i \in 1..Len(s) : s[i] = "1"
            THEN <<"number", s>>
        ELSE IF Len(s) >= 2 /\ s[1] = "\"" /\ s[Len(s)] = "\""
                /\ \A i \in 2..(Len(s) - 1) : s[i] # "\""
            THEN <<"string", SubSeq(s, 2, Len(s) - 1)>>
        ELSE <<"JSONDecodeError", <<>>>>

\* generate_email_content, from the reply text to the text given to json.loads
ParserInput(reply) ==
    LET raw == Strip(reply)
        unfenced == IF Find(raw, Fence) # 0
                    THEN LET part == Split(raw, Fence)[2]
                         IN  IF StartsWith(part, JsonTag)
                             THEN SubSeq(part, 5, Len(part))
                             ELSE part
                    ELSE raw
    IN  Strip(unfenced)

ParseReply(reply) == JsonLoads(ParserInput(reply))

\* --------------------------------------------------------------- the sheet
\* A row holds the three columns; `by` is history: the request whose append_row
\* wrote the row (0 for a header or a blank row).
CheckMark == "CHECK"
Header == [c1 |-> "Email", c2 |-> "Timestamp (UTC)", c3 |-> "Sent", by |-> 0]
BlankRow == [c1 |-> "", c2 |-> "", c3 |-> "", by |-> 0]

\* _ensure_header: `not first_row or first_row[0] != "Email"` on sheet.row_values(1)
NeedsHeader(sh) == sh = <<>> \/ sh[1].c1 # "Email"

\* sheet.insert_row(header, index=1): the rows below move down by one
InsertRowAtTop(sh, row) == <<row>> \o sh

\* the row save_email_to_sheet appends: [email, timestamp, ""]
NewRow(r) == [c1 |-> email[r], c2 |-> "utcnow", c3 |-> "", by |-> r]

\* sheet.update_cell(row, 3, value); a row past the last one is created
UpdateCell(sh, i, v) ==
    LET grown == sh \o [k \in 1..(IF i > Len(sh) THEN i - Len(sh) ELSE 0) |-> BlankRow]
    IN  [grown EXCEPT ![i].c3 = v]

\* -------------------------------------------------------------- the inputs
\* SubscribeRequest.email is an EmailStr: pydantic accepts the first and refuses
\* the second.  The handler never compares addresses, so one valid address
\* (which several requests may send) stands for all.
EmailInputs == {"a@x.io", "not-an-email"}
IsValidEmail(e) == e = "a@x.io"

Keys == {"subject", "heading", "body", "unsubscribe_note"}
NoContent == [kind |-> "none", keys |-> {}]
\* What the LLM call can come to: the HTTP call raises (or raise_for_status
\* does), the reply is not JSON, or json.loads returns an object with some of
\* the keys (all four, all but one, or none), or a value that is not an object.
LLMReplies ==
    {[kind |-> k, keys |-> {}] : k \in {"http_error", "not_json", "scalar"}}
    \cup {[kind |-> "object", keys |-> K] :
                K \in {Keys, {}} \cup {Keys \ {k} : k \in Keys}}

\* send_welcome_email reads content['heading'], ['body'], ['unsubscribe_note']
\* for the HTML and content["subject"] for the message, all before the API call
Renders(c) == c.kind = "object" /\ Keys \subseteq c.keys

Steps == <<"append", "generate", "send", "mark">>
NoResponse == [code |-> 0, detail |-> ""]
Success == [code |-> 200, detail |-> "Subscribed successfully!"]
ValidationError == [code |-> 422, detail |-> "value is not a valid email address"]
ServerError(stage) == [code |-> 500, detail |-> stage]

\* ------------------------------------------------------------------- Init
Init ==
    /\ sheet = <<>>
    /\ pc = [r \in Reqs |-> "idle"]
    /\ email = [r \in Reqs |-> ""]
    /\ row_index = [r \in Reqs |-> 0]
    /\ content = [r \in Reqs |-> NoContent]
    /\ response = [r \in Reqs |-> NoResponse]
    /\ calls = [r \in Reqs |-> <<>>]
    /\ succeeded = [r \in Reqs |-> {}]
    /\ submitted = [r \in Reqs |-> 0]
    /\ lacked = [r \in Reqs |-> FALSE]
    /\ payload = <<>>
    /\ form = "none"
    /\ out = <<"none", <<>>>>

\* ---------------------------------------------------------------- actions
\* Arrive without the EmailStr validation (email: str): every body reaches the handler.
Arrive_Unvalidated(r) ==
    /\ pc[r] = "idle"
    /\ \E e \in EmailInputs :
        /\ email' = [email EXCEPT ![r] = e]
        /\ pc' = [pc EXCEPT ![r] = "ensure_header"]
    /\ UNCHANGED <<sheet, row_index, content, response, calls, succeeded,
                   submitted, lacked>>
    /\ UNCHANGED fenceVars

\* POST /subscribe arrives; FastAPI validates the body against SubscribeRequest
\* and calls subscribe only when it is valid.
Arrive(r) ==
    /\ pc[r] = "idle"
    /\ \E e \in EmailInputs :
        /\ email' = [email EXCEPT ![r] = e]
        /\ IF IsValidEmail(e)
           THEN /\ pc' = [pc EXCEPT ![r] = "ensure_header"]
                /\ UNCHANGED response
           ELSE /\ pc' = [pc EXCEPT ![r] = "done"]
                /\ response' = [response EXCEPT ![r] = ValidationError]
    /\ UNCHANGED <<sheet, row_index, content, calls, succeeded, submitted, lacked>>
    /\ UNCHANGED fenceVars

\* save_email_to_sheet, first part: _get_sheet() and, in _ensure_header,
\* sheet.row_values(1).  Step 1 of the pipeline starts here.
EnsureHeaderRead(r) ==
    /\ pc[r] = "ensure_header"
    /\ calls' = [calls EXCEPT ![r] = Append(@, "append")]
    /\ \E ok \in BOOLEAN :
        IF ok
        THEN /\ pc' = [pc EXCEPT ![r] =
                        IF NeedsHeader(sheet) THEN "insert_header" ELSE "append_row"]
             /\ UNCHANGED response
        ELSE /\ pc' = [pc EXCEPT ![r] = "done"]
             /\ response' = [response EXCEPT ![r] = ServerError("Sheet error")]
    /\ UNCHANGED <<sheet, email, row_index, content, succeeded, submitted, lacked>>
    /\ UNCHANGED fenceVars

\* _ensure_header: sheet.insert_row([...], index=1)
InsertHeader(r) ==
    /\ pc[r] = "insert_header"
    /\ \E ok \in BOOLEAN :
        IF ok
        THEN /\ sheet' = InsertRowAtTop(sheet, Header)
             /\ pc' = [pc EXCEPT ![r] = "append_row"]
             /\ UNCHANGED response
        ELSE /\ pc' = [pc EXCEPT ![r] = "done"]
             /\ response' = [response EXCEPT ![r] = ServerError("Sheet error")]
             /\ UNCHANGED sheet
    /\ UNCHANGED <<email, row_index, content, calls, succeeded, submitted, lacked>>
    /\ UNCHANGED fenceVars

\* save_email_to_sheet: sheet.append_row([email, timestamp, ""])
AppendRow(r) ==
    /\ pc[r] = "append_row"
    /\ \E ok \in BOOLEAN :
        IF ok
        THEN /\ sheet' = Append(sheet, NewRow(r))
             /\ pc' = [pc EXCEPT ![r] = "count"]
             /\ UNCHANGED response
        ELSE /\ pc' = [pc EXCEPT ![r] = "done"]
             /\ response' = [response EXCEPT ![r] = ServerError("Sheet error")]
             /\ UNCHANGED sheet
    /\ UNCHANGED <<email, row_index, content, calls, succeeded, submitted, lacked>>
    /\ UNCHANGED fenceVars

\* save_email_to_sheet: return len(sheet.get_all_values())
CountRows(r) ==
    /\ pc[r] = "count"
    /\ \E ok \in BOOLEAN :
        IF ok
        THEN /\ row_index' = [row_index EXCEPT ![r] = Len(sheet)]
             /\ succeeded' = [succeeded EXCEPT ![r] = @ \cup {"append"}]
             /\ pc' = [pc EXCEPT ![r] = "generate"]
             /\ UNCHANGED response
        ELSE /\ pc' = [pc EXCEPT ![r] = "done"]
             /\ response' = [response EXCEPT ![r] = ServerError("Sheet error")]
             /\ UNCHANGED <<row_index, succeeded>>
    /\ UNCHANGED <<sheet, email, content, calls, submitted, lacked>>
    /\ UNCHANGED fenceVars

\* GenerateEmailContent with the failure logged and passed over, as step 4's is:
\* the handler goes on to step 3.
GenerateEmailContent_Swallowed(r) ==
    /\ pc[r] = "generate"
    /\ calls' = [calls EXCEPT ![r] = Append(@, "generate")]
    /\ \E reply \in LLMReplies :
        IF reply.kind \in {"http_error", "not_json"}
        THEN /\ pc' = [pc EXCEPT ![r] = "send"]
             /\ UNCHANGED <<content, succeeded, lacked>>
        ELSE /\ content' = [content EXCEPT ![r] = reply]
             /\ lacked' = [lacked EXCEPT ![r] = ~Renders(reply)]
             /\ succeeded' = [succeeded EXCEPT ![r] = @ \cup {"generate"}]
             /\ pc' = [pc EXCEPT ![r] = "send"]
    /\ UNCHANGED <<sheet, email, row_index, submitted, response>>
    /\ UNCHANGED fenceVars

\* step 2: generate_email_content(email)
GenerateEmailContent(r) ==
    /\ pc[r] = "generate"
    /\ calls' = [calls EXCEPT ![r] = Append(@, "generate")]
    /\ \E reply \in LLMReplies :
        IF reply.kind \in {"http_error", "not_json"}
        THEN /\ pc' = [pc EXCEPT ![r] = "done"]
             /\ response' = [response EXCEPT ![r] = ServerError("LLM error")]
             /\ UNCHANGED <<content, succeeded, lacked>>
        ELSE /\ content' = [content EXCEPT ![r] = reply]
             /\ lacked' = [lacked EXCEPT ![r] = ~Renders(reply)]
             /\ succeeded' = [succeeded EXCEPT ![r] = @ \cup {"generate"}]
             /\ pc' = [pc EXCEPT ![r] = "send"]
             /\ UNCHANGED response
    /\ UNCHANGED <<sheet, email, row_index, submitted>>
    /\ UNCHANGED fenceVars

\* SendWelcomeEmail with one retry of a failed API call.
SendWelcomeEmail_Retried(r) ==
    /\ pc[r] = "send"
    /\ calls' = [calls EXCEPT ![r] = Append(@, "send")]
    /\ IF ~Renders(content[r])
       THEN /\ pc' = [pc EXCEPT ![r] = "done"]
            /\ response' = [response EXCEPT ![r] = ServerError("Email send error")]
            /\ content' = [content EXCEPT ![r] = NoContent]
            /\ UNCHANGED <<submitted, succeeded>>
       ELSE /\ submitted' = [submitted EXCEPT ![r] = @ + 1]
            /\ \E ok \in BOOLEAN :
                IF ok
                THEN /\ succeeded' = [succeeded EXCEPT ![r] = @ \cup {"send"}]
                     /\ pc' = [pc EXCEPT ![r] = "mark"]
                     /\ UNCHANGED <<response, content>>
                ELSE IF submitted[r] = 0
                THEN UNCHANGED <<pc, response, content, succeeded>>
                ELSE /\ pc' = [pc EXCEPT ![r] = "done"]
                     /\ response' = [response EXCEPT ![r] =
                                        ServerError("Email send error")]
                     /\ content' = [content EXCEPT ![r] = NoContent]
                     /\ UNCHANGED succeeded
    /\ UNCHANGED <<sheet, email, row_index, lacked>>
    /\ UNCHANGED fenceVars

\* step 3: send_welcome_email(email, content).  The local content is dropped
\* from the state once the handler has returned.
SendWelcomeEmail(r) ==
    /\ pc[r] = "send"
    /\ calls' = [calls EXCEPT ![r] = Append(@, "send")]
    /\ IF ~Renders(content[r])
       THEN /\ pc' = [pc EXCEPT ![r] = "done"]
            /\ response' = [response EXCEPT ![r] = ServerError("Email send error")]
            /\ content' = [content EXCEPT ![r] = NoContent]
            /\ UNCHANGED <<submitted, succeeded>>
       ELSE /\ submitted' = [submitted EXCEPT ![r] = @ + 1]
            /\ \E ok \in BOOLEAN :
                IF ok
                THEN /\ succeeded' = [succeeded EXCEPT ![r] = @ \cup {"send"}]
                     /\ pc' = [pc EXCEPT ![r] = "mark"]
                     /\ UNCHANGED <<response, content>>
                ELSE /\ pc' = [pc EXCEPT ![r] = "done"]
                     /\ response' = [response EXCEPT ![r] =
                                        ServerError("Email send error")]
                     /\ content' = [content EXCEPT ![r] = NoContent]
                     /\ UNCHANGED succeeded
    /\ UNCHANGED <<sheet, email, row_index, lacked>>
    /\ UNCHANGED fenceVars

\* MarkRowSent with its exception raised as the other steps' are.
MarkRowSent_Surfaced(r) ==
    /\ pc[r] = "mark"
    /\ calls' = [calls EXCEPT ![r] = Append(@, "mark")]
    /\ \E ok \in BOOLEAN :
        IF ok
        THEN /\ sheet' = UpdateCell(sheet, row_index[r], CheckMark)
             /\ succeeded' = [succeeded EXCEPT ![r] = @ \cup {"mark"}]
             /\ response' = [response EXCEPT ![r] = Success]
        ELSE /\ response' = [response EXCEPT ![r] = ServerError("Sheet error")]
             /\ UNCHANGED <<sheet, succeeded>>
    /\ pc' = [pc EXCEPT ![r] = "done"]
    /\ content' = [content EXCEPT ![r] = NoContent]
    /\ UNCHANGED <<email, row_index, submitted, lacked>>
    /\ UNCHANGED fenceVars

\* step 4: mark_row_sent(row_index), its exception swallowed, then the return
MarkRowSent(r) ==
    /\ pc[r] = "mark"
    /\ calls' = [calls EXCEPT ![r] = Append(@, "mark")]
    /\ \E ok \in BOOLEAN :
        IF ok
        THEN /\ sheet' = UpdateCell(sheet, row_index[r], CheckMark)
             /\ succeeded' = [succeeded EXCEPT ![r] = @ \cup {"mark"}]
        ELSE UNCHANGED <<sheet, succeeded>>
    /\ pc' = [pc EXCEPT ![r] = "done"]
    /\ response' = [response EXCEPT ![r] = Success]
    /\ content' = [content EXCEPT ![r] = NoContent]
    /\ UNCHANGED <<email, row_index, submitted, lacked>>
    /\ UNCHANGED fenceVars

Next ==
    \E r \in Reqs :
        \/ Arrive(r)
        \/ EnsureHeaderRead(r)
        \/ InsertHeader(r)
        \/ AppendRow(r)
        \/ CountRows(r)
        \/ GenerateEmailContent(r)
        \/ SendWelcomeEmail(r)
        \/ MarkRowSent(r)

Spec == Init /\ [][Next]_vars

\* ------------------------------------------------- the reply parser alone
InitFence ==
    /\ sheet = <<>>
    /\ pc = [r \in Reqs |-> "idle"]
    /\ email = [r \in Reqs |-> ""]
    /\ row_index = [r \in Reqs |-> 0]
    /\ content = [r \in Reqs |-> NoContent]
    /\ response = [r \in Reqs |-> NoResponse]
    /\ calls = [r \in Reqs |-> <<>>]
    /\ succeeded = [r \in Reqs |-> {}]
    /\ submitted = [r \in Reqs |-> 0]
    /\ lacked = [r \in Reqs |-> FALSE]
    /\ payload \in Texts
    /\ form = "none"
    /\ out = <<"none", <<>>>>

\* the LLM returns the payload as it is
ReplyBare ==
    /\ form = "none"
    /\ form' = "bare"
    /\ out' = ParseReply(payload)
    /\ UNCHANGED payload
    /\ UNCHANGED reqVars

\* the LLM returns the payload between code-fence markers
ReplyFenced ==
    /\ form = "none"
    /\ form' = "fenced"
    /\ out' = ParseReply(Fence \o payload \o Fence)
    /\ UNCHANGED payload
    /\ UNCHANGED reqVars

\* the LLM returns the payload between code-fence markers, tagged json
ReplyTagged ==
    /\ form = "none"
    /\ form' = "tagged"
    /\ out' = ParseReply(Fence \o JsonTag \o payload \o Fence)
    /\ UNCHANGED payload
    /\ UNCHANGED reqVars

NextFence == ReplyBare \/ ReplyFenced \/ ReplyTagged

SpecFence == InitFence /\ [][NextFence]_vars

\* ------------------------------------------------------------- properties
Range(f) == {f[i] : i \in DOMAIN f}
IsPrefix(s, t) == Len(s) <= Len(t) /\ SubSeq(t, 1, Len(s)) = s

\* rows of the sheet that request r's append_row wrote
RowsOf(r) == {i \in 1..Len(sheet) : sheet[i].by = r}

\* r is inside save_email_to_sheet (step 1 is made of several calls)
Saving(r) == pc[r] \in {"insert_header", "append_row", "count"}

\* r attempted the step and the step raised
Failed(r, step) ==
    /\ step \in Range(calls[r])
    /\ step \notin succeeded[r]
    /\ ~(step = "append" /\ Saving(r))

Stage(step) ==
    CASE step = "append" -> "Sheet error"
      [] step = "generate" -> "LLM error"
      [] step = "send" -> "Email send error"

\* C1: the steps a request has attempted are a prefix of <append, generate,
\* send, mark> (each at most once, in order), and a send is attempted only
\* after the request's save_email_to_sheet has returned.
C1_StepsArePrefix ==
    \A r \in Reqs :
        /\ IsPrefix(calls[r], Steps)
        /\ submitted[r] <= 1
        /\ ("send" \in Range(calls[r]) \/ submitted[r] > 0) => "append" \in succeeded[r]

\* a request has attempted all four steps while another stopped after the first
C1_Witness ==
    \E r, q \in Reqs :
        /\ calls[r] = Steps
        /\ calls[q] = <<"append">> /\ pc[q] = "done"

\* C2: when one of the first three steps fails, the request attempts no later
\* step and answers 500 with the detail of that stage.
C2_FailureStopsPipeline ==
    \A r \in Reqs : \A k \in 1..3 :
        Failed(r, Steps[k]) =>
            /\ pc[r] = "done"
            /\ calls[r] = SubSeq(Steps, 1, k)
            /\ (k < 3 => submitted[r] = 0)
            /\ response[r] = ServerError(Stage(Steps[k]))

\* each of the three failures has happened, in some request
C2_Witness ==
    /\ \E r \in Reqs : Failed(r, "send") /\ submitted[r] = 1
    /\ \E r \in Reqs : Failed(r, "generate") \/ Failed(r, "append")

\* C3: a request that returned answers 200 success exactly when its first three
\* steps succeeded; a failed mark-sent is answered 200 success.
C3_MarkFailureIsSuccess ==
    \A r \in Reqs :
        /\ (pc[r] = "done" /\ calls[r] # <<>>) =>
              (response[r] = Success <=> {"append", "generate", "send"} \subseteq succeeded[r])
        /\ Failed(r, "mark") => response[r] = Success
        /\ response[r].code = 500 => \E k \in 1..3 : Failed(r, Steps[k])

\* a mark-sent failed after a delivery and the answer is 200
C3_Witness ==
    \E r \in Reqs :
        /\ Failed(r, "mark")
        /\ "send" \in succeeded[r]
        /\ response[r] = Success

\* C4: a request whose four steps all succeeded has added exactly one row and
\* that row's Sent cell holds the check mark when the request returns.
C4_OwnRowMarked ==
    \A r \in Reqs :
        (pc[r] = "done" /\ Range(Steps) \subseteq succeeded[r]) =>
            /\ Cardinality(RowsOf(r)) = 1
            /\ \A i \in RowsOf(r) : sheet[i].c3 = CheckMark

\* C5: when save_email_to_sheet returns, the index it returns is the position
\* of the row this call appended.
C5_ReturnsOwnRow ==
    [][\A r \in Reqs :
          (pc[r] = "count" /\ pc'[r] = "generate") =>
              /\ row_index'[r] \in 1..Len(sheet')
              /\ sheet'[row_index'[r]].by = r]_vars

\* C6: a JSON payload is parsed to the same value whether the reply holds it
\* bare, between fence markers, or between fence markers with the json tag.
C6_FenceIsTransparent ==
    (form # "none" /\ JsonLoads(payload)[1] # "JSONDecodeError") =>
        out = JsonLoads(payload)

\* C7: a request whose email is not valid makes no call, adds no row and is
\* answered with the validation error.
C7_InvalidNeverReachesHandler ==
    \A r \in Reqs :
        (pc[r] # "idle" /\ ~IsValidEmail(email[r])) =>
            /\ pc[r] = "done"
            /\ calls[r] = <<>>
            /\ succeeded[r] = {}
            /\ submitted[r] = 0
            /\ RowsOf(r) = {}
            /\ response[r] = ValidationError

\* an invalid request was refused while another request's row is in the sheet
C7_Witness ==
    \E r \in Reqs :
        /\ pc[r] = "done"
        /\ ~IsValidEmail(email[r])
        /\ sheet # <<>>

\* C8: the row of a request whose generation or delivery failed stays in the
\* sheet with an empty Sent cell, and a check mark on a data row means the
\* welcome email of the request that appended the row was delivered.
C8_FailedRowUnmarked ==
    /\ \A r \in Reqs :
          (Failed(r, "generate") \/ Failed(r, "send")) =>
              /\ Cardinality(RowsOf(r)) = 1
              /\ \A i \in RowsOf(r) : sheet[i].c3 = ""
    /\ \A i \in 1..Len(sheet) :
          (sheet[i].by # 0 /\ sheet[i].c3 = CheckMark) => "send" \in succeeded[sheet[i].by]

\* C9: when the parsed reply lacks a key, generation succeeds, the send step
\* fails with nothing handed to the mail API, the answer is 500 "Email send
\* error", and the request's row stays in the sheet, unmarked.
C9_MissingKeyFailsInSend ==
    \A r \in Reqs :
        (lacked[r] /\ pc[r] = "done") =>
            /\ "generate" \in succeeded[r]
            /\ Failed(r, "send")
            /\ submitted[r] = 0
            /\ response[r] = ServerError("Email send error")
            /\ Cardinality(RowsOf(r)) = 1
            /\ \A i \in RowsOf(r) : sheet[i].c3 = ""

\* C9, without the state of the Sent cell: what the request itself does.
C9_OwnSteps ==
    \A r \in Reqs :
        (lacked[r] /\ pc[r] = "done") =>
            /\ "generate" \in succeeded[r]
            /\ calls[r] = <<"append", "generate", "send">>
            /\ submitted[r] = 0
            /\ response[r] = ServerError("Email send error")
            /\ Cardinality(RowsOf(r)) = 1

\* C10: whenever no request is inside save_email_to_sheet, a sheet that is not
\* empty has the header as row 1 and only data rows below it.
C10_OneHeaderOnTop ==
    (sheet # <<>> /\ \A r \in Reqs : pc[r] # "ensure_header" /\ ~Saving(r)) =>
        /\ sheet[1] = Header
        /\ \A i \in 2..Len(sheet) : sheet[i].by # 0

====
